---- MODULE Spec2Model ----
(***************************************************************************)
(* Virtual H&E: main.rs.  Two grayscale images are decoded, each is        *)
(* histogram-scaled (apply_histogram_scaling) and both are blended into an *)
(* RGB image (generate_virtual_he) that is saved to the output path.       *)
(*                                                                         *)
(* Number models.                                                          *)
(*  - The normalizer's f32 arithmetic (division, multiplication, the       *)
(*    usize <-> f32 casts, min) is modelled bit-exactly for non-negative   *)
(*    values: a finite f32 is [kind |-> "fin", m, e] with value m * 2^e,   *)
(*    m = 0 or 2^23 <= m < 2^24, rounded to nearest, ties to even.  The    *)
(*    exponent range is not bounded (no subnormals, no overflow).          *)
(*  - The compositor calls expf, which is not bit-reproducible; its        *)
(*    arithmetic is modelled in fixed point, a value being                 *)
(*    [kind |-> "fin", v] with value v / SCALE, or "nan", "pinf", "ninf".  *)
(***************************************************************************)
EXTENDS Integers, Naturals, Sequences, FiniteSets, TLC

VARIABLES
    \* ---- apply_histogram_scaling, run as a function of its own ----
    spc,              \* position inside apply_histogram_scaling
    image,            \* the Array2<f32>, flattened, as runs [v, c]: c pixels of value v
    percentile,       \* the percentile argument (f32)
    sorted,           \* the sorted Vec<f32>, as runs
    threshold_index,  \* line 26
    max_intensity,    \* line 27
    image_in,         \* the grid as the caller passed it (history)
    \* ---- main / generate_virtual_he ----
    pc,               \* position of the run
    nucleus_image,    \* the opened / decoded nucleus image
    eosin_image,      \* the opened / decoded eosin image
    nucleus,          \* Array2<f32>: [nrows, ncols, data], data row-major
    eosin,            \* Array2<f32>
    nucleus_scaled,   \* the compositor's nucleus argument
    eosin_scaled,     \* the compositor's eosin argument
    k,                \* args.k
    rgb,              \* Array3<f32>: [nrows, ncols, data], data[p][c]
    task,             \* task[c]: number of elements the task of plane c has written
    rgb_uint8,        \* the quantized array
    output_file,      \* the file at args.output: "absent" or the saved image
    writes,           \* number of times the output file was written
    stdout,           \* lines printed
    exit_status       \* "running", "ok", "error" (Err from main) or "panic"

svars == <<spc, image, percentile, sorted, threshold_index, max_intensity, image_in>>
mvars == <<pc, nucleus_image, eosin_image, nucleus, eosin, nucleus_scaled,
           eosin_scaled, k, rgb, task, rgb_uint8, output_file, writes, stdout,
           exit_status>>
vars == <<spc, image, percentile, sorted, threshold_index, max_intensity, image_in,
          pc, nucleus_image, eosin_image, nucleus, eosin, nucleus_scaled,
          eosin_scaled, k, rgb, task, rgb_uint8, output_file, writes, stdout,
          exit_status>>

-----------------------------------------------------------------------------
(* Bounds of the model *)

\* longest run-length description of an image given to apply_histogram_scaling
MaxRuns == 2
\* lengths of the long runs of equal pixels
MidRun == 100
BigRun == 99999
\* largest number of pixels of an image decoded by main
MaxPixels == 2

-----------------------------------------------------------------------------
(* f32, non-negative values *)

TwoP23 == 2^23
TwoP24 == 2^24
TwoP12 == 2^12

F32Zero == [kind |-> "fin", m |-> 0, e |-> 0]
F32One  == [kind |-> "fin", m |-> TwoP23, e |-> -23]
F32NaN  == [kind |-> "nan", m |-> 0, e |-> 0]
F32Inf  == [kind |-> "inf", m |-> 0, e |-> 0]

F32Fin(m, e) == [kind |-> "fin", m |-> m, e |-> e]

\* truncation of the discarded part (round toward zero)
F32RoundTowardZero(m, e, twiceRem, unit) == F32Fin(m, e)

\* round to nearest, ties to even: the 24-bit mantissa m is followed by a
\* discarded part rem / unit, given as twiceRem = 2 * rem
F32Round(m, e, twiceRem, unit) ==
    LET up == twiceRem > unit \/ (twiceRem = unit /\ m % 2 = 1)
        m1 == IF up THEN m + 1 ELSE m
    IN  IF m1 = TwoP24 THEN F32Fin(TwoP23, e + 1) ELSE F32Fin(m1, e)

RECURSIVE F32Extend(_, _, _, _)
\* long division: quotient bits until the quotient has 24 bits
F32Extend(q, r, den, e) ==
    IF q >= TwoP23
    THEN <<q, r, e>>
    ELSE LET b == IF 2 * r >= den THEN 1 ELSE 0
         IN  F32Extend(2 * q + b, 2 * r - b * den, den, e - 1)

\* the f32 nearest to (num / den) * 2^e, for 0 <= num, 0 < den, num / den < 2^24
F32RoundRatio(num, den, e) ==
    IF num = 0 THEN F32Zero
    ELSE LET x == F32Extend(num \div den, num % den, den, e)
         IN  F32Round(x[1], x[3], 2 * x[2], den)

\* a / b in f32 (IEEE 754 division, operands non-negative)
F32Div(a, b) ==
    CASE a.kind = "nan" \/ b.kind = "nan" -> F32NaN
      [] a.kind = "inf" /\ b.kind = "inf" -> F32NaN
      [] a.kind = "inf" -> F32Inf
      [] b.kind = "inf" -> F32Zero
      [] a.m = 0 /\ b.m = 0 -> F32NaN
      [] b.m = 0 -> F32Inf
      [] a.m = 0 -> F32Zero
      [] OTHER -> F32RoundRatio(a.m, b.m, a.e - b.e)

\* a * b in f32 (operands non-negative): the 48-bit product of the mantissas
\* in 12-bit limbs, rounded to 24 bits
F32Mul(a, b) ==
    CASE a.kind = "nan" \/ b.kind = "nan" -> F32NaN
      [] a.kind = "inf" \/ b.kind = "inf" ->
            IF (a.kind = "fin" /\ a.m = 0) \/ (b.kind = "fin" /\ b.m = 0)
            THEN F32NaN ELSE F32Inf
      [] a.m = 0 \/ b.m = 0 -> F32Zero
      [] OTHER ->
            LET ah == a.m \div TwoP12
                al == a.m % TwoP12
                bh == b.m \div TwoP12
                bl == b.m % TwoP12
                t0 == al * bl
                t1 == ah * bl + al * bh + (t0 \div TwoP12)
                hi == ah * bh + (t1 \div TwoP12)
                lo == (t1 % TwoP12) * TwoP12 + (t0 % TwoP12)
            IN  IF hi >= TwoP23
                THEN F32Round(hi, a.e + b.e + 24, 2 * lo, TwoP24)
                ELSE F32Round(2 * hi + (lo \div TwoP23), a.e + b.e + 23,
                              2 * (lo % TwoP23), TwoP23)

\* a < b for non-NaN operands
F32Lt(a, b) ==
    CASE a.kind = "inf" -> FALSE
      [] b.kind = "inf" -> TRUE
      [] b.m = 0 -> FALSE
      [] a.m = 0 -> TRUE
      [] OTHER -> a.e < b.e \/ (a.e = b.e /\ a.m < b.m)

F32Le(a, b) == a = b \/ F32Lt(a, b)

-----------------------------------------------------------------------------
(* apply_histogram_scaling, lines 23-30 *)

\* the f32 of a decimal literal num / den of the source (99.999 is 99999 / 1000)
F32Literal(num, den) == F32RoundRatio(num, den, 0)

\* `len as f32`, exact for len < 2^24
UsizeToF32(n) == F32RoundRatio(n, 1, 0)

\* `x as usize`: truncation toward zero, NaN to 0 (x below 2^31 here)
F32ToUsize(x) ==
    CASE x.kind = "nan" -> 0
      [] x.kind = "fin" /\ x.m = 0 -> 0
      [] x.kind = "fin" /\ x.e >= 0 -> x.m * 2^(x.e)
      [] x.kind = "fin" /\ x.e <= -24 -> 0
      [] x.kind = "fin" -> x.m \div 2^(-x.e)

\* a minimum that propagates NaN (the IEEE 754-2019 `minimum`)
F32MinPropagating(a, b) ==
    CASE a.kind = "nan" \/ b.kind = "nan" -> F32NaN
      [] OTHER -> IF F32Lt(b, a) THEN b ELSE a

\* f32::min: a NaN operand is ignored
F32Min(a, b) ==
    CASE a.kind = "nan" -> b
      [] b.kind = "nan" -> a
      [] OTHER -> IF F32Lt(b, a) THEN b ELSE a

Min(a, b) == IF a < b THEN a ELSE b

RECURSIVE TotalLen(_)
\* number of pixels of a run-length description
TotalLen(runs) ==
    IF runs = <<>> THEN 0 ELSE Head(runs).c + TotalLen(Tail(runs))

RECURSIVE InsertRun(_, _)
\* r inserted into the ascending runs s, after the runs that are not greater
InsertRun(r, s) ==
    IF s = <<>> THEN <<r>>
    ELSE IF F32Lt(r.v, Head(s).v) THEN <<r>> \o s
    ELSE <<Head(s)>> \o InsertRun(r, Tail(s))

RECURSIVE SortRuns(_)
\* sorted.sort_by(partial_cmp): ascending, stable
SortRuns(runs) ==
    IF runs = <<>> THEN <<>>
    ELSE InsertRun(runs[Len(runs)], SortRuns(SubSeq(runs, 1, Len(runs) - 1)))

RECURSIVE RunValueAt(_, _)
\* runs[i] of the flattened vector, i counted from 0
RunValueAt(runs, i) ==
    IF i < Head(runs).c THEN Head(runs).v
    ELSE RunValueAt(Tail(runs), i - Head(runs).c)

\* line 26: ((percentile / 100.0) * (sorted.len() as f32)) as usize
ThresholdIndex(p, len) ==
    F32ToUsize(F32Mul(F32Div(p, F32Literal(100, 1)), UsizeToF32(len)))

\* line 27: threshold_index.min(sorted.len() - 1)
ClampIndex(idx, len) == Min(idx, len - 1)

\* line 27: sorted[threshold_index.min(sorted.len() - 1)]
MaxIntensity(s, idx) == RunValueAt(s, ClampIndex(idx, TotalLen(s)))

\* the closure with the operands of the division exchanged
ScaleValueSwapped(v, max) == F32Min(F32Div(max, v), F32One)

\* the closure without the clip
ScaleValueNoClip(v, max) == F32Div(v, max)

\* line 28, the closure: (v / max_intensity).min(1.0)
ScaleValue(v, max) == F32Min(F32Div(v, max), F32One)

\* line 28: image.par_mapv_inplace(closure)
MapRuns(runs, max) ==
    [i \in DOMAIN runs |-> [v |-> ScaleValue(runs[i].v, max), c |-> runs[i].c]]

\* the whole function
ApplyHistogramScaling(img, p) ==
    LET s == SortRuns(img)
    IN  MapRuns(img, MaxIntensity(s, ThresholdIndex(p, TotalLen(s))))

-----------------------------------------------------------------------------
(* apply_histogram_scaling as a state machine *)

NoValue == [kind |-> "none", m |-> 0, e |-> 0]

\* line 24: let mut sorted: Vec<f32> = image.par_iter().copied().collect()
Collect ==
    /\ spc = "collect"
    /\ sorted' = image
    /\ spc' = "sort"
    /\ UNCHANGED <<image, percentile, threshold_index, max_intensity, image_in>>

\* line 25: sorted.sort_by(|a, b| a.partial_cmp(b).unwrap())
Sort ==
    /\ spc = "sort"
    /\ sorted' = SortRuns(sorted)
    /\ spc' = "index"
    /\ UNCHANGED <<image, percentile, threshold_index, max_intensity, image_in>>

\* line 26
Index ==
    /\ spc = "index"
    /\ threshold_index' = ThresholdIndex(percentile, TotalLen(sorted))
    /\ spc' = "pick"
    /\ UNCHANGED <<image, percentile, sorted, max_intensity, image_in>>

\* line 27
Pick ==
    /\ spc = "pick"
    /\ max_intensity' = MaxIntensity(sorted, threshold_index)
    /\ spc' = "map"
    /\ UNCHANGED <<image, percentile, sorted, threshold_index, image_in>>

\* line 28
Map ==
    /\ spc = "map"
    /\ image' = MapRuns(image, max_intensity)
    /\ spc' = "done"
    /\ UNCHANGED <<percentile, sorted, threshold_index, max_intensity, image_in>>

ScalingStep == Collect \/ Sort \/ Index \/ Pick \/ Map

\* the state of the function's frame at entry with arguments img, p
Enter(img, p) ==
    /\ spc' = "collect"
    /\ image' = img
    /\ image_in' = img
    /\ percentile' = p
    /\ sorted' = <<>>
    /\ threshold_index' = 0
    /\ max_intensity' = NoValue

ScalingIdle ==
    /\ spc = "idle"
    /\ image = <<>>
    /\ image_in = <<>>
    /\ percentile = NoValue
    /\ sorted = <<>>
    /\ threshold_index = 0
    /\ max_intensity = NoValue

-----------------------------------------------------------------------------
(* Fixed-point arithmetic of the compositor *)

SCALE == 10^4

XFin(v) == [kind |-> "fin", v |-> v]
XNaN  == [kind |-> "nan", v |-> 0]
XPInf == [kind |-> "pinf", v |-> 0]
XNInf == [kind |-> "ninf", v |-> 0]

Abs(n) == IF n < 0 THEN -n ELSE n
Sign(a) == CASE a.kind = "pinf" -> 1
             [] a.kind = "ninf" -> -1
             [] a.kind = "fin" -> IF a.v < 0 THEN -1 ELSE IF a.v > 0 THEN 1 ELSE 0

\* unary minus
XNeg(a) ==
    CASE a.kind = "nan" -> XNaN
      [] a.kind = "pinf" -> XNInf
      [] a.kind = "ninf" -> XPInf
      [] OTHER -> XFin(-a.v)

\* a * b: NaN propagates, 0 * inf is NaN, the finite product is truncated
XMul(a, b) ==
    CASE a.kind = "nan" \/ b.kind = "nan" -> XNaN
      [] a.kind # "fin" \/ b.kind # "fin" ->
            IF Sign(a) * Sign(b) = 0 THEN XNaN
            ELSE IF Sign(a) * Sign(b) > 0 THEN XPInf ELSE XNInf
      [] OTHER ->
            LET x == Abs(a.v)
                y == Abs(b.v)
                p == x * (y \div SCALE) + (x * (y % SCALE)) \div SCALE
            IN  XFin(Sign(a) * Sign(b) * p)

RECURSIVE ExpNeg(_)
\* exp of v / SCALE for v <= 0: halving down to 1/8, then the Taylor polynomial
ExpNeg(v) ==
    IF -v * 8 > SCALE
    THEN LET h == ExpNeg(-((-v) \div 2)) IN (h * h) \div SCALE
    ELSE SCALE + v + (v * v) \div (2 * SCALE)
               - ((-v) * (-v) * (-v)) \div (6 * SCALE * SCALE)

\* f32::exp
XExp(a) ==
    CASE a.kind = "nan" -> XNaN
      [] a.kind = "pinf" -> XPInf
      [] a.kind = "ninf" -> XFin(0)
      [] a.v <= 0 -> XFin(ExpNeg(a.v))
      [] OTHER -> IF ExpNeg(-a.v) = 0 THEN XPInf
                  ELSE XFin((SCALE * SCALE) \div ExpNeg(-a.v))

\* a minimum that propagates NaN
XMinPropagating(a, b) ==
    CASE a.kind = "nan" \/ b.kind = "nan" -> XNaN
      [] a.kind = "ninf" \/ b.kind = "pinf" -> a
      [] b.kind = "ninf" \/ a.kind = "pinf" -> b
      [] OTHER -> IF b.v < a.v THEN b ELSE a

\* f32::min: a NaN operand is ignored
XMin(a, b) ==
    CASE a.kind = "nan" -> b
      [] b.kind = "nan" -> a
      [] a.kind = "ninf" \/ b.kind = "pinf" -> a
      [] b.kind = "ninf" \/ a.kind = "pinf" -> b
      [] OTHER -> IF b.v < a.v THEN b ELSE a

\* `x as u8`: saturating, truncating, NaN to 0
XToU8(a) ==
    CASE a.kind = "nan" -> 0
      [] a.kind = "pinf" -> 255
      [] a.kind = "ninf" -> 0
      [] a.v < 0 -> 0
      [] a.v >= 255 * SCALE -> 255
      [] OTHER -> a.v \div SCALE

\* the fixed-point value of an f32 below 2^12 (truncated)
ToFix(x) ==
    CASE x.kind = "nan" -> XNaN
      [] x.kind = "inf" -> XPInf
      [] x.m = 0 -> XFin(0)
      [] -x.e - 12 > 30 -> XFin(0)
      [] OTHER -> XFin((((x.m \div TwoP12) * SCALE)
                        + (((x.m % TwoP12) * SCALE) \div TwoP12)) \div 2^(-x.e - 12))

-----------------------------------------------------------------------------
(* generate_virtual_he, lines 34-75 *)

\* lines 41-46, in units of 1 / SCALE
beta_values ==
    << << (860 * SCALE) \div 1000, (1000 * SCALE) \div 1000, (300 * SCALE) \div 1000 >>,
       << (50 * SCALE) \div 1000, (1000 * SCALE) \div 1000, (544 * SCALE) \div 1000 >> >>

\* lines 54-56, channel c in 0..2:
\* (-beta[0][c] * n * k).exp() * (-beta[1][c] * e * k).exp()
ChannelValue(c, n, e, kk) ==
    XMul(XExp(XMul(XMul(XNeg(XFin(beta_values[1][c + 1])), ToFix(n)), kk)),
         XExp(XMul(XMul(XNeg(XFin(beta_values[2][c + 1])), ToFix(e)), kk)))

\* the closure with a wrapping conversion of the unclamped product (modulo 256)
QuantizeWrapping(v) ==
    LET x == XMul(v, XFin(255 * SCALE))
    IN  IF x.kind = "fin" THEN (x.v \div SCALE) % 256 ELSE 0

\* line 63, the closure: (v * 255.0).min(255.0) as u8
Quantize(v) == XToU8(XMin(XMul(v, XFin(255 * SCALE)), XFin(255 * SCALE)))

NoArray == [nrows |-> 0, ncols |-> 0, data |-> <<>>]

NPixels(a) == a.nrows * a.ncols

\* a[[i, j]] is inside the array
InBounds(a, i, j) == i < a.nrows /\ j < a.ncols

\* a[[i, j]], row-major
At(a, i, j) == a.data[i * a.ncols + j + 1]

\* line 49: Array3::zeros((nucleus.nrows(), nucleus.ncols(), 3))
Zeros(n) ==
    [nrows |-> n.nrows, ncols |-> n.ncols,
     data |-> [p \in 1..NPixels(n) |-> <<XFin(0), XFin(0), XFin(0)>>]]

\* one of the per-plane tasks has finished
AnyComputed == \E c \in 0..2 : task[c] = NPixels(rgb)

\* the three per-plane tasks have all finished
AllComputed == \A c \in 0..2 : task[c] = NPixels(rgb)

\* the element step writing into the plane of the next channel
ChannelStepShared(c) ==
    /\ pc = "compute"
    /\ task[c] < NPixels(rgb)
    /\ LET p == task[c]
           i == p \div rgb.ncols
           j == p % rgb.ncols
       IN  /\ InBounds(eosin_scaled, i, j)
           /\ rgb' = [rgb EXCEPT !.data[p + 1][((c + 1) % 3) + 1] =
                        ChannelValue(c, At(nucleus_scaled, i, j),
                                     At(eosin_scaled, i, j), k)]
    /\ task' = [task EXCEPT ![c] = @ + 1]
    /\ UNCHANGED <<pc, nucleus_image, eosin_image, nucleus, eosin, nucleus_scaled,
                   eosin_scaled, k, rgb_uint8, output_file, writes, stdout,
                   exit_status>>
    /\ UNCHANGED svars

\* lines 51-59, one element of plane c: the task's next (i, j) in row-major order
ChannelStep(c) ==
    /\ pc = "compute"
    /\ task[c] < NPixels(rgb)
    /\ LET p == task[c]
           i == p \div rgb.ncols
           j == p % rgb.ncols
       IN  /\ InBounds(eosin_scaled, i, j)
           /\ rgb' = [rgb EXCEPT !.data[p + 1][c + 1] =
                        ChannelValue(c, At(nucleus_scaled, i, j),
                                     At(eosin_scaled, i, j), k)]
    /\ task' = [task EXCEPT ![c] = @ + 1]
    /\ UNCHANGED <<pc, nucleus_image, eosin_image, nucleus, eosin, nucleus_scaled,
                   eosin_scaled, k, rgb_uint8, output_file, writes, stdout,
                   exit_status>>
    /\ UNCHANGED svars

\* lines 54-56: eosin[[i, j]] outside the eosin array panics (index out of bounds)
ChannelPanic(c) ==
    /\ pc = "compute"
    /\ task[c] < NPixels(rgb)
    /\ ~InBounds(eosin_scaled, task[c] \div rgb.ncols, task[c] % rgb.ncols)
    /\ pc' = "exit"
    /\ exit_status' = "panic"
    /\ UNCHANGED <<nucleus_image, eosin_image, nucleus, eosin, nucleus_scaled,
                   eosin_scaled, k, rgb, task, rgb_uint8, output_file, writes,
                   stdout>>
    /\ UNCHANGED svars

\* line 63: rgb.mapv(closure)
QuantizeAll ==
    /\ pc = "compute"
    /\ AllComputed
    /\ rgb_uint8' = [nrows |-> rgb.nrows, ncols |-> rgb.ncols,
                     data |-> [p \in 1..NPixels(rgb) |->
                                 [c \in 1..3 |-> Quantize(rgb.data[p][c])]]]
    /\ pc' = "save"
    /\ UNCHANGED <<nucleus_image, eosin_image, nucleus, eosin, nucleus_scaled,
                   eosin_scaled, k, rgb, task, output_file, writes, stdout,
                   exit_status>>
    /\ UNCHANGED svars

NoFile == [state |-> "absent", width |-> 0, height |-> 0, pixels |-> <<>>]

\* lines 66-72: pixel (x, y) of the ImageBuffer is rgb_uint8[[y, x, 0..2]]
OutputImage ==
    LET w == rgb.ncols
        h == rgb.nrows
    IN  [state |-> "saved", width |-> w, height |-> h,
         pixels |-> [q \in 1..(w * h) |->
                       LET x == (q - 1) % w
                           y == (q - 1) \div w
                       IN  rgb_uint8.data[y * rgb_uint8.ncols + x + 1]]]

\* line 73: output_image.save(output_path)?
Save ==
    /\ pc = "save"
    /\ \/ /\ output_file' = OutputImage
          /\ writes' = writes + 1
          /\ pc' = "print"
          /\ UNCHANGED exit_status
       \/ \* the file cannot be created
          /\ UNCHANGED <<output_file, writes>>
          /\ pc' = "exit"
          /\ exit_status' = "error"
       \/ \* the encoder fails after the file was created
          /\ output_file' = [OutputImage EXCEPT !.state = "truncated", !.pixels = <<>>]
          /\ writes' = writes + 1
          /\ pc' = "exit"
          /\ exit_status' = "error"
    /\ UNCHANGED <<nucleus_image, eosin_image, nucleus, eosin, nucleus_scaled,
                   eosin_scaled, k, rgb, task, rgb_uint8, stdout>>
    /\ UNCHANGED svars

-----------------------------------------------------------------------------
(* main, lines 77-127 *)

NoImage == [fmt |-> "none", height |-> 0, width |-> 0, pixels |-> <<>>]
Opened  == [fmt |-> "opened", height |-> 0, width |-> 0, pixels |-> <<>>]

\* shapes (height, width) of the decoded images
Shapes == {hw \in (1..MaxPixels) \X (1..MaxPixels) : hw[1] * hw[2] <= MaxPixels}

\* sample values of the decoded images
Luma8Samples == {51, 255}
Luma16Samples == {0, 65535}

\* what ImageReader::decode can return: a grayscale image of 8 or 16 bits, or an
\* image of another colour type (its samples play no role)
DecodedImages ==
    {[fmt |-> "Luma8", height |-> hw[1], width |-> hw[2], pixels |-> px] :
        hw \in Shapes, px \in UNION {[1..n -> Luma8Samples] : n \in 1..MaxPixels}}
    \cup
    {[fmt |-> "Luma16", height |-> hw[1], width |-> hw[2], pixels |-> px] :
        hw \in Shapes, px \in UNION {[1..n -> Luma16Samples] : n \in 1..MaxPixels}}
    \cup
    {[fmt |-> "Rgb8", height |-> 1, width |-> 1, pixels |-> <<0>>]}

\* an image as the decoder builds it: its buffer holds height * width samples
WellFormed(img) == Len(img.pixels) = img.height * img.width

\* the run ends with status st
Exit(st) ==
    /\ pc' = "exit"
    /\ exit_status' = st

\* lines 82-83: ImageReader::open(path)?
Open(which) ==
    /\ pc = IF which = "nucleus" THEN "open_nucleus" ELSE "open_eosin"
    /\ \/ /\ IF which = "nucleus"
             THEN nucleus_image' = Opened /\ UNCHANGED eosin_image
             ELSE eosin_image' = Opened /\ UNCHANGED nucleus_image
          /\ pc' = IF which = "nucleus" THEN "open_eosin" ELSE "decode_nucleus"
          /\ UNCHANGED exit_status
       \/ /\ Exit("error")
          /\ UNCHANGED <<nucleus_image, eosin_image>>
    /\ UNCHANGED <<nucleus, eosin, nucleus_scaled, eosin_scaled, k, rgb, task,
                   rgb_uint8, output_file, writes, stdout>>
    /\ UNCHANGED svars

\* lines 90-91: reader.decode()?
Decode(which) ==
    /\ pc = IF which = "nucleus" THEN "decode_nucleus" ELSE "decode_eosin"
    /\ \/ \E img \in {d \in DecodedImages : WellFormed(d)} :
             /\ IF which = "nucleus"
                THEN nucleus_image' = img /\ UNCHANGED eosin_image
                ELSE eosin_image' = img /\ UNCHANGED nucleus_image
             /\ pc' = IF which = "nucleus" THEN "decode_eosin" ELSE "convert_nucleus"
             /\ UNCHANGED exit_status
       \/ /\ Exit("error")
          /\ UNCHANGED <<nucleus_image, eosin_image>>
    /\ UNCHANGED <<nucleus, eosin, nucleus_scaled, eosin_scaled, k, rgb, task,
                   rgb_uint8, output_file, writes, stdout>>
    /\ UNCHANGED svars

\* lines 97, 101: p[0] as f32 / 65535.0, p[0] as f32 / 255.0
ConvertPixel(fmt, p) ==
    IF fmt = "Luma16"
    THEN F32Div(UsizeToF32(p), F32Literal(65535, 1))
    ELSE F32Div(UsizeToF32(p), F32Literal(255, 1))

\* Array2::from_shape_vec((h, w), v): Err(ShapeError) unless v holds h * w elements
FromShapeVec(h, w, v) ==
    IF Len(v) = h * w
    THEN [ok |-> TRUE, arr |-> [nrows |-> h, ncols |-> w, data |-> v]]
    ELSE [ok |-> FALSE, arr |-> NoArray]

\* lines 94-104 and 106-116: match on the decoded image
Convert(which) ==
    /\ pc = IF which = "nucleus" THEN "convert_nucleus" ELSE "convert_eosin"
    /\ LET img == IF which = "nucleus" THEN nucleus_image ELSE eosin_image
           r == FromShapeVec(img.height, img.width,
                             [q \in 1..Len(img.pixels) |->
                                ConvertPixel(img.fmt, img.pixels[q])])
       IN  IF img.fmt \notin {"Luma8", "Luma16"}
           THEN Exit("panic") /\ UNCHANGED <<nucleus, eosin>>
           ELSE IF ~r.ok
           THEN Exit("error") /\ UNCHANGED <<nucleus, eosin>>
           ELSE /\ IF which = "nucleus"
                   THEN nucleus' = r.arr /\ UNCHANGED eosin
                   ELSE eosin' = r.arr /\ UNCHANGED nucleus
                /\ pc' = IF which = "nucleus" THEN "convert_eosin" ELSE "scale_nucleus"
                /\ UNCHANGED exit_status
    /\ UNCHANGED <<nucleus_image, eosin_image, nucleus_scaled, eosin_scaled, k, rgb,
                   task, rgb_uint8, output_file, writes, stdout>>
    /\ UNCHANGED svars

\* an Array2 flattened, one run per pixel
Flatten(a) == [q \in 1..Len(a.data) |-> [v |-> a.data[q], c |-> 1]]

\* lines 119-120: the call apply_histogram_scaling(x, 99.999)
CallScaling(which) ==
    /\ pc = IF which = "nucleus" THEN "scale_nucleus" ELSE "scale_eosin"
    /\ spc = "idle"
    /\ Enter(Flatten(IF which = "nucleus" THEN nucleus ELSE eosin),
             F32Literal(99999, 1000))
    /\ pc' = IF which = "nucleus" THEN "scaling_nucleus" ELSE "scaling_eosin"
    /\ UNCHANGED <<nucleus_image, eosin_image, nucleus, eosin, nucleus_scaled,
                   eosin_scaled, k, rgb, task, rgb_uint8, output_file, writes,
                   stdout, exit_status>>

\* lines 119-120: the scaled image is returned and bound
ReturnScaling(which) ==
    /\ pc = IF which = "nucleus" THEN "scaling_nucleus" ELSE "scaling_eosin"
    /\ spc = "done"
    /\ LET src == IF which = "nucleus" THEN nucleus ELSE eosin
           res == [src EXCEPT !.data = [q \in 1..Len(image) |-> image[q].v]]
       IN  IF which = "nucleus"
           THEN nucleus_scaled' = res /\ UNCHANGED eosin_scaled
           ELSE eosin_scaled' = res /\ UNCHANGED nucleus_scaled
    /\ spc' = "idle"
    /\ pc' = IF which = "nucleus" THEN "scale_eosin" ELSE "generate"
    /\ UNCHANGED <<image, percentile, sorted, threshold_index, max_intensity, image_in>>
    /\ UNCHANGED <<nucleus_image, eosin_image, nucleus, eosin, k, rgb, task,
                   rgb_uint8, output_file, writes, stdout, exit_status>>

\* the steps of apply_histogram_scaling leave the caller's state alone
Scaling == ScalingStep /\ UNCHANGED mvars

\* line 123 into line 49: generate_virtual_he is entered, rgb is allocated
Generate ==
    /\ pc = "generate"
    /\ rgb' = Zeros(nucleus_scaled)
    /\ task' = [c \in 0..2 |-> 0]
    /\ pc' = "compute"
    /\ UNCHANGED <<nucleus_image, eosin_image, nucleus, eosin, nucleus_scaled,
                   eosin_scaled, k, rgb_uint8, output_file, writes, stdout,
                   exit_status>>
    /\ UNCHANGED svars

\* line 124-126: println!("Virtual H&E image saved to: ..."); Ok(())
PrintSaved ==
    /\ pc = "print"
    /\ stdout' = Append(stdout, "Virtual H&E image saved to: output")
    /\ Exit("ok")
    /\ UNCHANGED <<nucleus_image, eosin_image, nucleus, eosin, nucleus_scaled,
                   eosin_scaled, k, rgb, task, rgb_uint8, output_file, writes>>
    /\ UNCHANGED svars

\* values of -k on the command line (line 18-19: default 2.5)
KArgs == {XFin((25 * SCALE) \div 10)}

MainStart ==
    /\ nucleus_image = NoImage
    /\ eosin_image = NoImage
    /\ nucleus = NoArray
    /\ eosin = NoArray
    /\ nucleus_scaled = NoArray
    /\ eosin_scaled = NoArray
    /\ rgb = NoArray
    /\ task = [c \in 0..2 |-> 0]
    /\ rgb_uint8 = NoArray
    /\ output_file = NoFile
    /\ writes = 0
    /\ stdout = <<>>
    /\ exit_status = "running"

\* line 79: the arguments are parsed, nothing else has happened
Init ==
    /\ pc = "open_nucleus"
    /\ k \in KArgs
    /\ MainStart
    /\ ScalingIdle

Compute == \E c \in 0..2 : ChannelStep(c) \/ ChannelPanic(c)

Next ==
    \/ Open("nucleus")
    \/ Open("eosin")
    \/ Decode("nucleus")
    \/ Decode("eosin")
    \/ Convert("nucleus")
    \/ Convert("eosin")
    \/ CallScaling("nucleus")
    \/ CallScaling("eosin")
    \/ Scaling
    \/ ReturnScaling("nucleus")
    \/ ReturnScaling("eosin")
    \/ Generate
    \/ Compute
    \/ QuantizeAll
    \/ Save
    \/ PrintSaved

Spec == Init /\ [][Next]_vars

-----------------------------------------------------------------------------
(* apply_histogram_scaling applied to arbitrary images *)

\* pixel values: 0, 0.2, two neighbours just below 1.0, and 1.0
ScalingSamples ==
    {F32Zero, F32Literal(51, 255), F32Fin(TwoP24 - 2, -24), F32Fin(TwoP24 - 1, -24),
     F32One}

RunLengths == {1, MidRun, BigRun}

Runs == {[v |-> x, c |-> n] : x \in ScalingSamples, n \in RunLengths}

Images == UNION {[1..n -> Runs] : n \in 1..MaxRuns}

\* 99.999 (the caller's value), 100 and 10
Percentiles == {F32Literal(99999, 1000), F32Literal(100, 1), F32Literal(10, 1)}

ScalingInit ==
    /\ spc = "collect"
    /\ image \in Images
    /\ image_in = image
    /\ percentile \in Percentiles
    /\ sorted = <<>>
    /\ threshold_index = 0
    /\ max_intensity = NoValue
    /\ pc = "library"
    /\ k \in KArgs
    /\ MainStart

ScalingNext == Scaling

ScalingSpec == ScalingInit /\ [][ScalingNext]_vars

-----------------------------------------------------------------------------
(* generate_virtual_he applied to one pixel of arbitrary intensities *)

\* intensities: 0, 0.2, 1.0 and (not normalized) 3.0
CompositorSamples == {F32Zero, F32Literal(51, 255), F32One, F32Literal(3, 1)}

\* strength factors: 2.5, 0.5, 0, -1, and the non-finite values f32 parses
KValues ==
    {XFin((25 * SCALE) \div 10), XFin((5 * SCALE) \div 10), XFin(0), XFin(-SCALE),
     XPInf, XNInf, XNaN}

OnePixel(x) == [nrows |-> 1, ncols |-> 1, data |-> <<x>>]

CompositorInit ==
    /\ pc = "generate"
    /\ k \in KValues
    /\ nucleus_image = NoImage
    /\ eosin_image = NoImage
    /\ nucleus = NoArray
    /\ eosin = NoArray
    /\ nucleus_scaled \in {OnePixel(x) : x \in CompositorSamples}
    /\ eosin_scaled \in {OnePixel(x) : x \in CompositorSamples}
    /\ rgb = NoArray
    /\ task = [c \in 0..2 |-> 0]
    /\ rgb_uint8 = NoArray
    /\ output_file = NoFile
    /\ writes = 0
    /\ stdout = <<>>
    /\ exit_status = "running"
    /\ ScalingIdle

ComputeChannel == \E c \in 0..2 : ChannelStep(c)

CompositorNext ==
    \/ Generate
    \/ ComputeChannel
    \/ QuantizeAll
    \/ Save

CompositorSpec == CompositorInit /\ [][CompositorNext]_vars

-----------------------------------------------------------------------------
(* Properties *)

Positive(x) == x.kind = "fin" /\ x.m > 0

InUnitInterval(x) == x.kind = "fin" /\ F32Le(F32Zero, x) /\ F32Le(x, F32One)

\* the compositor has been entered with arrays of different shapes
ShapesDiffer ==
    /\ rgb # NoArray
    /\ \/ nucleus_scaled.nrows # eosin_scaled.nrows
       \/ nucleus_scaled.ncols # eosin_scaled.ncols

\* C1: when the two grids given to generate_virtual_he differ in height or in
\* width, the run fails before any output element is computed: no task has
\* written an element, nothing is quantized, no file is written and the run
\* does not succeed.
C1_ShapeMismatchFailsFast ==
    ShapesDiffer =>
        /\ \A c \in 0..2 : task[c] = 0
        /\ rgb_uint8 = NoArray
        /\ writes = 0
        /\ output_file = NoFile
        /\ exit_status # "ok"

\* C2: for a grid of non-negative finite values with at least one positive
\* value, every value of the returned grid is a finite number in [0, 1].
C2_OutputInUnitInterval ==
    (spc = "done" /\ \E q \in DOMAIN image_in : Positive(image_in[q].v)) =>
        \A q \in DOMAIN image : InUnitInterval(image[q].v)

\* C2, its case: the value picked at the percentile index is 0 although the
\* grid holds a positive pixel, and the function has returned.
C2_Witness ==
    /\ spc = "done"
    /\ max_intensity = F32Zero
    /\ \E q \in DOMAIN image_in : Positive(image_in[q].v)

\* floor((p / 100) * n) in exact arithmetic, p the value of the f32 percentile
\* (below 2^12), n below 2^19
ExactFloorIndex(p, n) ==
    LET hi == (p.m \div TwoP12) * n + ((p.m % TwoP12) * n) \div TwoP12
    IN  hi \div (100 * 2^(-p.e - 12))

\* the function has computed the index it reads the divisor at
IndexComputed == spc \in {"pick", "map", "done"}

C5_OrderPreserved ==
    (spc = "done" /\ Positive(max_intensity)) =>
        \A q1, q2 \in DOMAIN image_in :
            F32Le(image_in[q1].v, image_in[q2].v) => F32Le(image[q1].v, image[q2].v)

\* C5, its case: two pixels a < b scaled by a positive divisor, both clipped
\* to 1.0, and two pixels a < b mapped to a' < b'.
C5_Witness ==
    /\ spc = "done"
    /\ Positive(max_intensity)
    /\ \E q1, q2 \in DOMAIN image_in :
          /\ F32Lt(image_in[q1].v, image_in[q2].v)
          /\ \/ image[q1].v = F32One /\ image[q2].v = F32One
             \/ F32Lt(image[q1].v, image[q2].v)

\* C6: when the divisor picked is 0 the function does not return an ordinary
\* finite grid: some value of the returned grid is not finite (the function
\* has no error result).
C6_ZeroDivisorNotSilent ==
    (spc = "done" /\ max_intensity = F32Zero) =>
        \E q \in DOMAIN image : image[q].v.kind # "fin"

\* C9: with a positive divisor, every pixel not below the divisor is returned
\* as exactly 1.0, every pixel below it is returned strictly below 1.0, and at
\* least one returned pixel is 1.0.
C9_SaturatesAtThreshold ==
    (spc = "done" /\ Positive(max_intensity)) =>
        /\ \A q \in DOMAIN image_in :
              /\ F32Le(max_intensity, image_in[q].v) => image[q].v = F32One
              /\ F32Lt(image_in[q].v, max_intensity) =>
                    image[q].v.kind = "fin" /\ F32Lt(image[q].v, F32One)
        /\ \E q \in DOMAIN image : image[q].v = F32One

\* C9, its case: a positive divisor, a pixel equal to it and a pixel one unit
\* in the last place below it.
C9_Witness ==
    /\ spc = "done"
    /\ max_intensity = F32Fin(TwoP24 - 1, -24)
    /\ \E q1, q2 \in DOMAIN image_in :
          /\ image_in[q1].v = F32Fin(TwoP24 - 2, -24)
          /\ image_in[q2].v = max_intensity

\* the arrays of generate_virtual_he have been quantized
Quantized == pc \in {"save", "print", "exit"} /\ rgb_uint8 # NoArray

\* the intensity x is normalized
Normalized(a) == \A q \in DOMAIN a.data : InUnitInterval(a.data[q])

\* C4: the quantization maps every intermediate value v to 0..255: floor(v * 255)
\* for v in [0, 1], exactly 255 for every v above 1.0; with normalized inputs and
\* a finite k > 0 the intermediate values are in [0, 1].
C4_QuantizedInByteRange ==
    Quantized =>
        \A p \in DOMAIN rgb.data : \A c \in 1..3 :
            LET v == rgb.data[p][c]
                q == rgb_uint8.data[p][c]
            IN  /\ q \in 0..255
                /\ (v.kind = "fin" /\ 0 <= v.v /\ v.v <= SCALE) =>
                        q = (v.v * 255) \div SCALE
                /\ (v.kind = "pinf" \/ (v.kind = "fin" /\ v.v > SCALE)) => q = 255
                /\ (/\ Normalized(nucleus_scaled)
                    /\ Normalized(eosin_scaled)
                    /\ k.kind = "fin"
                    /\ k.v > 0) => (v.kind = "fin" /\ 0 <= v.v /\ v.v <= SCALE)

\* C4, its case: an intermediate value above 1.0 has been quantized.
C4_Witness ==
    /\ Quantized
    /\ \E p \in DOMAIN rgb.data : \E c \in 1..3 :
          rgb.data[p][c].kind = "fin" /\ rgb.data[p][c].v > SCALE

\* C8: a pixel whose nucleus and eosin intensities are both 0 is output as
\* 255 in its three channels, whatever k is.
C8_ZeroPixelIsWhite ==
    Quantized =>
        \A p \in DOMAIN rgb_uint8.data :
            (nucleus_scaled.data[p] = F32Zero /\ At(eosin_scaled, (p - 1) \div rgb.ncols,
                                                    (p - 1) % rgb.ncols) = F32Zero)
                => rgb_uint8.data[p] = <<255, 255, 255>>

\* C8, its case: a pixel of intensities 0 and 0 composed with a non-finite k.
C8_Witness ==
    /\ Quantized
    /\ k.kind = "nan"
    /\ nucleus_scaled.data[1] = F32Zero
    /\ eosin_scaled.data[1] = F32Zero

\* the run ended before generate_virtual_he allocated its array
AbortedEarly == pc = "exit" /\ rgb = NoArray

\* C7: the output file is written at most once, and only after both channels
\* were normalized and every element of the three planes was computed and
\* quantized; a run that ends before the compositor writes no file, prints
\* nothing and ends with a failure status; the message follows the saved file.
C7_OutputWrittenOnceAtEnd ==
    /\ writes <= 1
    /\ (writes > 0 \/ output_file # NoFile) =>
          /\ nucleus_scaled # NoArray
          /\ eosin_scaled # NoArray
          /\ \A c \in 0..2 : task[c] = rgb.nrows * rgb.ncols
          /\ rgb_uint8.data =
                [p \in 1..(rgb.nrows * rgb.ncols) |->
                    [c \in 1..3 |-> Quantize(rgb.data[p][c])]]
          /\ pc \in {"print", "exit"}
    /\ AbortedEarly =>
          /\ writes = 0
          /\ output_file = NoFile
          /\ stdout = <<>>
          /\ exit_status \in {"error", "panic"}
    /\ stdout # <<>> => (writes = 1 /\ output_file.state = "saved")
    /\ exit_status = "ok" => stdout # <<>>

\* C7, its case: a run of two pixels has saved its file and printed the message.
C7_Witness ==
    /\ pc = "exit"
    /\ exit_status = "ok"
    /\ writes = 1
    /\ Len(output_file.pixels) = 2

\* the element (p, c) of the array that the tasks produce when run one after
\* the other
SequentialElement(p, c) ==
    ChannelValue(c, nucleus_scaled.data[p],
                 At(eosin_scaled, (p - 1) \div rgb.ncols, (p - 1) % rgb.ncols), k)

\* C10: the task of plane c writes plane c only, in its own order, and never
\* the inputs: at every moment element (p, c) is the sequential value if task c
\* has passed p and is still 0.0 otherwise, whatever the other tasks did, and
\* when the tasks have ended the inputs are still the normalized images; so
\* every interleaving ends with the array of the sequential run.
C10_TasksIndependent ==
    (rgb # NoArray /\ pc \in {"compute", "save", "print"}) =>
        /\ \A p \in DOMAIN rgb.data : \A c \in 0..2 :
              rgb.data[p][c + 1] =
                  IF p <= task[c] THEN SequentialElement(p, c) ELSE XFin(0)
        /\ (nucleus # NoArray /\ pc = "save") =>
              LET n == ApplyHistogramScaling(Flatten(nucleus), F32Literal(99999, 1000))
                  e == ApplyHistogramScaling(Flatten(eosin), F32Literal(99999, 1000))
              IN  /\ nucleus_scaled.data = [q \in DOMAIN nucleus.data |-> n[q].v]
                  /\ eosin_scaled.data = [q \in DOMAIN eosin.data |-> e[q].v]

\* C10, its case: the three tasks have interleaved over two pixels: the task
\* of plane 2 is done, that of plane 1 is halfway, that of plane 0 has not begun.
C10_Witness ==
    /\ pc = "compute"
    /\ NPixels(rgb) = 2
    /\ task = [c \in 0..2 |-> c]
    /\ rgb.data[2][3] # XFin(0)

====
